---- MODULE Spec2Model ----
(***************************************************************************)
(* Model of app.py of youtube-dashboard: the comment collector             *)
(* (get_comments_data), the response-to-table stage (analyze_with_gemini)  *)
(* and the dashboard flow that chains them.                                *)
(*                                                                         *)
(* Text is a sequence of one-character strings.  NL stands for the line    *)
(* feed and SP for the blank; "G","S","|","B","R" stand for the five       *)
(* characters of the header marker (two syllables, the delimiter, two      *)
(* syllables).                                                             *)
(***************************************************************************)
EXTENDS Integers, Sequences, FiniteSets

VARIABLES
    pc,             \* position of the run
    pages,          \* remote comment listing: a sequence of pages of items
    limit,          \* get_comments_data's limit argument
    callFailed,     \* whether commentThreads().list(...).execute() raised
    raw,            \* the comment table get_comments_data returned
    collectRaised,  \* whether get_comments_data raised to its caller
    response,       \* the text the generative API answers with
    df,             \* analyze_with_gemini's argument
    fault,          \* the step of analyze_with_gemini that fails, or "none"
    final,          \* the table analyze_with_gemini returned
    analyzeRaised,  \* whether analyze_with_gemini raised to its caller
    generateCalled, \* whether generate_content was invoked
    info,           \* get_video_info's result (None or a record)
    status,         \* the st.status widget's state
    ui              \* what has been rendered below the status widget

vars == <<pc, pages, limit, callFailed, raw, collectRaised, response, df, fault,
          final, analyzeRaised, generateCalled, info, status, ui>>

\* ------------------------------------------------------------------ bounds

MaxItems == 3
MaxPages == 2
MaxLimit == 3
MaxLines == 3

\* ------------------------------------------------------------------ helpers

NL == "nl"
SP == "sp"

Min(S) == CHOOSE x \in S : \A y \in S : x <= y

None == "None"

\* pd.DataFrame() and pd.DataFrame([]): no columns, no rows
EmptyComments == [cols |-> {}, rows |-> <<>>]

\* pd.DataFrame() as a parsed table
EmptyTable == [cols |-> <<>>, index |-> <<>>, rows |-> <<>>]

\* df.empty
CommentsEmpty(t) == t.rows = <<>> \/ t.cols = {}

\* ------------------------------------------------------------------ collector

\* first index j >= 3 closing a tag opened at s[1], 0 when there is none
TagEnd(s) ==
    LET C == {j \in 3..Len(s) : s[j] = ">" /\ \A k \in 2..(j - 1) : s[k] # "<"}
    IN  IF C = {} THEN 0 ELSE Min(C)

RECURSIVE StripTags(_)
\* re.sub('<[^<]+?>', '', s)
StripTags(s) ==
    IF s = <<>> THEN <<>>
    ELSE IF Head(s) = "<" /\ TagEnd(s) > 0
         THEN StripTags(SubSeq(s, TagEnd(s) + 1, Len(s)))
         ELSE <<Head(s)>> \o StripTags(Tail(s))

\* .replace('\n', ' ')
OneLine(s) == [i \in 1..Len(s) |-> IF s[i] = NL THEN SP ELSE s[i]]

CleanText(s) == OneLine(StripTags(s))

\* the record appended for one item
Normalize(item) == [time |-> item.publishedAt, text |-> CleanText(item.textDisplay)]

\* variant: the new comment is put in front
AddCommentFront(comments, c) == <<c>> \o comments

\* comments.append({...})
AddComment(comments, c) == Append(comments, c)

\* variant: the loop breaks one comment late
BreakAfter(n, lim) == n > lim

\* if len(comments) >= limit: break
BreakAt(n, lim) == n >= lim

RECURSIVE CollectLoop(_, _, _)
\* the for loop; an item without the expected keys raises KeyError
CollectLoop(items, lim, comments) ==
    IF items = <<>> THEN [raised |-> FALSE, comments |-> comments]
    ELSE IF ~Head(items).ok THEN [raised |-> TRUE, comments |-> comments]
    ELSE LET c == AddComment(comments, Normalize(Head(items)))
         IN  IF BreakAt(Len(c), lim)
             THEN [raised |-> FALSE, comments |-> c]
             ELSE CollectLoop(Tail(items), lim, c)

\* pd.DataFrame(comments)
DataFrameOf(comments) ==
    IF comments = <<>> THEN EmptyComments
    ELSE [cols |-> {"time", "text"}, rows |-> comments]

\* variant: the handler returns what was gathered
KeepPartial(partial) == [raised |-> FALSE, value |-> DataFrameOf(partial)]

\* except: return pd.DataFrame()
OnExcept(partial) == [raised |-> FALSE, value |-> EmptyComments]

\* the one request the function makes: the first page of the listing
FirstPage(pgs) == pgs[1]

\* get_comments_data(v_id, limit), given the remote listing and whether the call raises
get_comments_data(pgs, lim, fails) ==
    IF fails THEN OnExcept(<<>>)
    ELSE LET r == CollectLoop(FirstPage(pgs), lim, <<>>)
         IN  IF r.raised THEN OnExcept(r.comments)
             ELSE [raised |-> FALSE, value |-> DataFrameOf(r.comments)]

\* ------------------------------------------------------------------ remote listing

TextPlain == <<"a">>
TextHtml == <<"<", "b", ">", "a">>
TextLines == <<"a", NL, "b">>

\* what a listed item can be: three well-formed snippets, and one item
\* without the keys the loop reads
ItemKinds == {[ok |-> TRUE, textDisplay |-> TextPlain],
              [ok |-> TRUE, textDisplay |-> TextHtml],
              [ok |-> TRUE, textDisplay |-> TextLines],
              [ok |-> FALSE, textDisplay |-> TextPlain]}

RECURSIVE Flatten(_)
Flatten(pgs) == IF pgs = <<>> THEN <<>> ELSE Head(pgs) \o Flatten(Tail(pgs))

Posted == Len(Flatten(pages))

\* a comment thread appears in the listing (order="time": stamps decrease along it)
RemotePost(kind) ==
    /\ pc = "listing"
    /\ Posted < MaxItems
    /\ pages' = [pages EXCEPT ![Len(pages)] =
                    Append(@, [ok |-> kind.ok,
                               publishedAt |-> MaxItems - Posted,
                               textDisplay |-> kind.textDisplay])]
    /\ UNCHANGED <<pc, limit, callFailed, raw, collectRaised, response, df, fault,
                   final, analyzeRaised, generateCalled, info, status, ui>>

\* the listing continues on a further page (the page so far carries a token)
RemoteNextPage ==
    /\ pc = "listing"
    /\ Len(pages) < MaxPages
    /\ pages[Len(pages)] # <<>>
    /\ pages' = Append(pages, <<>>)
    /\ UNCHANGED <<pc, limit, callFailed, raw, collectRaised, response, df, fault,
                   final, analyzeRaised, generateCalled, info, status, ui>>

\* one invocation of get_comments_data
Collect(lim, fails) ==
    /\ pc = "listing"
    /\ LET r == get_comments_data(pages, lim, fails)
       IN  /\ raw' = r.value
           /\ collectRaised' = r.raised
    /\ limit' = lim
    /\ callFailed' = fails
    /\ pc' = "collected"
    /\ UNCHANGED <<pages, response, df, fault, final, analyzeRaised,
                   generateCalled, info, status, ui>>

InitCollect ==
    /\ pc = "listing"
    /\ pages = << <<>> >>
    /\ limit = 0
    /\ callFailed = FALSE
    /\ raw = EmptyComments
    /\ collectRaised = FALSE
    /\ response = <<>>
    /\ df = EmptyComments
    /\ fault = "none"
    /\ final = EmptyTable
    /\ analyzeRaised = FALSE
    /\ generateCalled = FALSE
    /\ info = None
    /\ status = "running"
    /\ ui = {}

NextCollect ==
    \/ \E k \in ItemKinds : RemotePost(k)
    \/ RemoteNextPage
    \/ \E l \in 0..MaxLimit, f \in BOOLEAN : Collect(l, f)

SpecCollect == InitCollect /\ [][NextCollect]_vars

\* ------------------------------------------------------------------ text

IsWs(c) == c \in {NL, SP}

RECURSIVE LStrip(_)
LStrip(s) == IF s # <<>> /\ IsWs(Head(s)) THEN LStrip(Tail(s)) ELSE s

RECURSIVE RStrip(_)
RStrip(s) ==
    IF s # <<>> /\ IsWs(s[Len(s)]) THEN RStrip(SubSeq(s, 1, Len(s) - 1)) ELSE s

\* str.strip()
Strip(s) == RStrip(LStrip(s))

StartsWith(s, p) == Len(s) >= Len(p) /\ SubSeq(s, 1, Len(p)) = p

RECURSIVE FindFrom(_, _, _)
FindFrom(s, p, i) ==
    IF i + Len(p) > Len(s) THEN -1
    ELSE IF SubSeq(s, i + 1, i + Len(p)) = p THEN i
    ELSE FindFrom(s, p, i + 1)

\* str.find(p): the 0-based offset of the first occurrence, -1 when there is none
Find(s, p) == FindFrom(s, p, 0)

\* p in s
Contains(s, p) == Find(s, p) >= 0

\* s[start:], a negative start counting from the end
SliceFrom(s, start) ==
    LET b == IF start < 0
             THEN (IF Len(s) + start < 0 THEN 0 ELSE Len(s) + start)
             ELSE start
    IN  SubSeq(s, b + 1, Len(s))

RECURSIVE Replace(_, _)
\* str.replace(p, ''), leftmost occurrences first
Replace(s, p) ==
    IF s = <<>> THEN <<>>
    ELSE IF StartsWith(s, p) THEN Replace(SubSeq(s, Len(p) + 1, Len(s)), p)
    ELSE <<Head(s)>> \o Replace(Tail(s), p)

RECURSIVE Split(_, _)
\* the segments of s between occurrences of the character d
Split(s, d) ==
    LET C == {i \in 1..Len(s) : s[i] = d}
    IN  IF C = {} THEN <<s>>
        ELSE <<SubSeq(s, 1, Min(C) - 1)>> \o Split(SubSeq(s, Min(C) + 1, Len(s)), d)

\* ------------------------------------------------------------------ response parsing

\* "감성|분류"
Marker == <<"G", "S", "|", "B", "R">>

\* the backtick
BT == "bt"

\* the triple backtick, and the fences tagged csv and py
Fence == <<BT, BT, BT>>
FenceCsv == Fence \o <<"c", "s", "v">>
FencePy == Fence \o <<"p", "y">>

Delim == "|"

NaN == "NaN"

\* df.empty of a parsed table
TableEmpty(t) == t.rows = <<>> \/ t.cols = <<>>

\* variant: the bare fence is removed before the tagged one
StripBare(t) == Strip(Replace(Replace(t, Fence), FenceCsv))

\* .replace(FenceCsv, '').replace(Fence, '').strip()
CleanCsv(t) == Strip(Replace(Replace(t, FenceCsv), Fence))

\* csv.reader on one line: no field for an empty line
Fields(line) == IF line = <<>> THEN <<>> ELSE Split(line, Delim)

\* skip_blank_lines: a line with no field, or one field of blanks, is dropped
Blank(fields) == fields = <<>> \/ (Len(fields) = 1 /\ Strip(fields[1]) = <<>>)

\* the records of the text: every line's fields, blank lines dropped
Records(text) ==
    LET ls == Split(text, NL)
    IN  SelectSeq([i \in 1..Len(ls) |-> Fields(ls[i])], LAMBDA f : ~Blank(f))

\* _get_index_name: how many leading fields of each row are the index. A first
\* data row longer than the header makes its surplus an implicit index; a first
\* row followed by one that is longer by the header's width names the index.
IndexNamesRow(header, data) ==
    Len(data) >= 2 /\ Len(data[2]) = Len(data[1]) + Len(header)

IndexWidth(header, data) ==
    IF data = <<>> THEN 0
    ELSE IF IndexNamesRow(header, data) THEN Len(data[1])
    ELSE IF Len(data[1]) > Len(header) THEN Len(data[1]) - Len(header)
    ELSE 0

\* a row padded with NaN to width w
Pad(row, w) == [i \in 1..w |-> IF i <= Len(row) THEN row[i] ELSE NaN]

\* on_bad_lines='skip': rows with more than w fields are dropped
SkipBad(rows, w) == SelectSeq(rows, LAMBDA r : Len(r) <= w)

\* pd.read_csv(io.StringIO(text), sep='|', on_bad_lines='skip', engine='python')
\* and the strip of the column names
read_csv(text) ==
    LET recs == Records(text)
    IN  IF recs = <<>> THEN [raised |-> TRUE, value |-> EmptyTable]
        ELSE
        LET header == Head(recs)
            data0 == Tail(recs)
            k == IndexWidth(header, data0)
            data == IF IndexNamesRow(header, data0) THEN Tail(data0) ELSE data0
            w == Len(header) + k
            kept == SkipBad(data, w)
            full == [i \in 1..Len(kept) |-> Pad(kept[i], w)]
        IN  [raised |-> FALSE,
             value |-> [cols |-> [i \in 1..Len(header) |-> Strip(header[i])],
                        index |-> [i \in 1..Len(full) |-> SubSeq(full[i], 1, k)],
                        rows |-> [i \in 1..Len(full) |-> SubSeq(full[i], k + 1, w)]]]

\* variant: the text is parsed without looking for the marker
ParseWholeText(res_txt) == read_csv(CleanCsv(res_txt))

\* the table found in the stripped response text, or the empty table
ParseResponse(res_txt) ==
    IF Contains(res_txt, Marker)
    THEN read_csv(CleanCsv(SliceFrom(res_txt, Find(res_txt, Marker))))
    ELSE [raised |-> FALSE, value |-> EmptyTable]

\* df['text'] of a table without that column raises KeyError
PromptRaises(d) == "text" \notin d.cols

\* variant: the empty table is not short-circuited
NeverEarly(d) == FALSE

\* if df.empty: return pd.DataFrame()
EarlyReturn(d) == CommentsEmpty(d)

\* what the except clause returns after reporting the error
Caught(generated) ==
    [raised |-> FALSE, value |-> EmptyTable, generated |-> generated, shown |-> TRUE]

Propagates == [raised |-> TRUE, value |-> EmptyTable, generated |-> FALSE, shown |-> FALSE]

\* analyze_with_gemini(df), given the step that fails ("model": building the
\* handle, "generate": generate_content, "text": reading response.text, "none")
\* and the text the generative API answers with
analyze_with_gemini(d, flt, text) ==
    IF EarlyReturn(d)
    THEN [raised |-> FALSE, value |-> EmptyTable, generated |-> FALSE, shown |-> FALSE]
    ELSE IF flt = "model" THEN Propagates
    ELSE IF PromptRaises(d) THEN Propagates
    ELSE IF flt = "generate" THEN Caught(TRUE)
    ELSE IF flt = "text" THEN Caught(TRUE)
    ELSE LET r == ParseResponse(Strip(text))
         IN  IF r.raised THEN Caught(TRUE)
             ELSE [raised |-> FALSE, value |-> r.value, generated |-> TRUE, shown |-> FALSE]

Faults == {"none", "model", "generate", "text"}

\* ------------------------------------------------------------------ generative API

Prose == <<"e">>
HeaderPadded == <<"e", SP>> \o Marker \o <<SP>>
RowAB == <<"a", "|", "b">>
RowCD == <<"c", "|", "d">>
RowLong == <<"f", "|", "g", "|", "h">>

\* the lines an answer is made of: prose (a one-field line), the header bare or
\* inside a sentence, rows of two and of three fields, and fence lines
LineKinds == {Prose, Marker, HeaderPadded, RowAB, RowCD, RowLong,
              Fence, FenceCsv, FencePy}

LineCount(text) ==
    IF text = <<>> THEN 0 ELSE Cardinality({i \in 1..Len(text) : text[i] = NL}) + 1

\* the generative API's answer grows by one line
EmitLine(line) ==
    /\ pc = "answering"
    /\ LineCount(response) < MaxLines
    /\ response' = (IF response = <<>> THEN line ELSE response \o <<NL>> \o line)
    /\ UNCHANGED <<pc, pages, limit, callFailed, raw, collectRaised, df, fault,
                   final, analyzeRaised, generateCalled, info, status, ui>>

\* one invocation of analyze_with_gemini
Analyze(flt) ==
    /\ pc = "answering"
    /\ LET r == analyze_with_gemini(df, flt, response)
       IN  /\ final' = r.value
           /\ analyzeRaised' = r.raised
           /\ generateCalled' = r.generated
           /\ ui' = (IF r.shown THEN {"error_ai"} ELSE {})
    /\ fault' = flt
    /\ pc' = "analyzed"
    /\ UNCHANGED <<pages, limit, callFailed, raw, collectRaised, response, df,
                   info, status>>

OneComment == [cols |-> {"time", "text"}, rows |-> <<[time |-> 1, text |-> TextPlain]>>]
NoTextColumn == [cols |-> {"time"}, rows |-> <<[time |-> 1]>>]

\* the comment tables analyze_with_gemini is applied to
AnalyzeInputs == {EmptyComments, OneComment, NoTextColumn}

InitParse ==
    /\ pc = "answering"
    /\ pages = << <<>> >>
    /\ limit = 0
    /\ callFailed = FALSE
    /\ raw = EmptyComments
    /\ collectRaised = FALSE
    /\ response = <<>>
    /\ df \in AnalyzeInputs
    /\ fault = "none"
    /\ final = EmptyTable
    /\ analyzeRaised = FALSE
    /\ generateCalled = FALSE
    /\ info = None
    /\ status = "running"
    /\ ui = {}

NextParse ==
    \/ \E l \in LineKinds : EmitLine(l)
    \/ \E f \in Faults : Analyze(f)

SpecParse == InitParse /\ [][NextParse]_vars

\* ------------------------------------------------------------------ dashboard flow

\* the limit the flow passes: get_comments_data(vid, limit=50)
PipelineLimit == 50

VideoInfo == "info"

\* url entered; re.search either yields a video id or the page reports the url
SubmitUrl(matches) ==
    /\ pc = "start"
    /\ IF matches
       THEN pc' = "info" /\ ui' = ui
       ELSE pc' = "done" /\ ui' = {"error_url"}
    /\ UNCHANGED <<pages, limit, callFailed, raw, collectRaised, response, df, fault,
                   final, analyzeRaised, generateCalled, info, status>>

\* info = get_video_info(vid): None when the call raises or finds no item
GetVideoInfo(found) ==
    /\ pc = "info"
    /\ info' = (IF found THEN VideoInfo ELSE None)
    /\ pc' = "collect"
    /\ UNCHANGED <<pages, limit, callFailed, raw, collectRaised, response, df, fault,
                   final, analyzeRaised, generateCalled, status, ui>>

\* raw = get_comments_data(vid, limit=50)
FlowCollect(fails) ==
    /\ pc = "collect"
    /\ LET r == get_comments_data(pages, PipelineLimit, fails)
       IN  /\ raw' = r.value
           /\ collectRaised' = r.raised
    /\ limit' = PipelineLimit
    /\ callFailed' = fails
    /\ pc' = "analyze"
    /\ UNCHANGED <<pages, response, df, fault, final, analyzeRaised,
                   generateCalled, info, status, ui>>

\* final = analyze_with_gemini(raw); an exception ends the script run
FlowAnalyze(flt) ==
    /\ pc = "analyze"
    /\ LET r == analyze_with_gemini(raw, flt, response)
       IN  /\ final' = r.value
           /\ analyzeRaised' = r.raised
           /\ generateCalled' = r.generated
           /\ ui' = (IF r.raised THEN {"exception"}
                     ELSE IF r.shown THEN {"error_ai"} ELSE {})
           /\ pc' = (IF r.raised THEN "done" ELSE "status")
    /\ df' = raw
    /\ fault' = flt
    /\ UNCHANGED <<pages, limit, callFailed, raw, collectRaised, response,
                   info, status>>

\* status.update(...): complete when final is not empty, error otherwise
UpdateStatus ==
    /\ pc = "status"
    /\ status' = (IF ~TableEmpty(final) THEN "complete" ELSE "error")
    /\ pc' = "render"
    /\ UNCHANGED <<pages, limit, callFailed, raw, collectRaised, response, df, fault,
                   final, analyzeRaised, generateCalled, info, ui>>

\* if info and not final.empty: the result; elif info: the warning
Render ==
    /\ pc = "render"
    /\ ui' = ui \cup (IF info # None /\ ~TableEmpty(final) THEN {"table"}
                      ELSE IF info # None THEN {"warning"}
                      ELSE {})
    /\ pc' = "done"
    /\ UNCHANGED <<pages, limit, callFailed, raw, collectRaised, response, df, fault,
                   final, analyzeRaised, generateCalled, info, status>>

Item(kind, stamp) ==
    [ok |-> kind.ok, publishedAt |-> stamp, textDisplay |-> kind.textDisplay]

\* the listings the flow is run on: no comment, one, two, and a broken item
\* after a good one
FlowListings ==
    {<< <<>> >>,
     << <<Item([ok |-> TRUE, textDisplay |-> TextHtml], 2)>> >>,
     << <<Item([ok |-> TRUE, textDisplay |-> TextPlain], 2),
          Item([ok |-> TRUE, textDisplay |-> TextLines], 1)>> >>,
     << <<Item([ok |-> TRUE, textDisplay |-> TextPlain], 2),
          Item([ok |-> FALSE, textDisplay |-> TextPlain], 1)>> >>}

Lines2(a, b) == a \o <<NL>> \o b

\* the answers the flow is run on: prose only, a header without rows, a table,
\* a fenced table after a sentence, a table whose first row is too long
FlowResponses ==
    {Prose,
     Marker,
     Lines2(Marker, Lines2(RowAB, RowCD)),
     Lines2(Prose, Lines2(FenceCsv, Lines2(Marker, Lines2(RowAB, Fence)))),
     Lines2(Marker, Lines2(RowLong, RowAB))}

InitFlow ==
    /\ pc = "start"
    /\ pages \in FlowListings
    /\ limit = 0
    /\ callFailed = FALSE
    /\ raw = EmptyComments
    /\ collectRaised = FALSE
    /\ response \in FlowResponses
    /\ df = EmptyComments
    /\ fault = "none"
    /\ final = EmptyTable
    /\ analyzeRaised = FALSE
    /\ generateCalled = FALSE
    /\ info = None
    /\ status = "running"
    /\ ui = {}

NextFlow ==
    \/ \E m \in BOOLEAN : SubmitUrl(m)
    \/ \E f \in BOOLEAN : GetVideoInfo(f)
    \/ \E f \in BOOLEAN : FlowCollect(f)
    \/ \E f \in Faults : FlowAnalyze(f)
    \/ UpdateStatus
    \/ Render

SpecFlow == InitFlow /\ [][NextFlow]_vars

\* ------------------------------------------------------------------ claims: collector

Collected == pc = "collected"

AllWellFormed(items) == \A i \in 1..Len(items) : items[i].ok

\* the table's rows are the first lim items of the listing, in order
IsPrefixOf(rows, items, lim) ==
    /\ Len(rows) = (IF Len(items) < lim THEN Len(items) ELSE lim)
    /\ \A i \in 1..Len(rows) : rows[i].time = items[i].publishedAt

\* whether the loop reaches an item that raises before it breaks
LoopRaises(items, lim) ==
    \E i \in 1..Len(items) : ~items[i].ok /\ (i = 1 \/ i - 1 < lim)

C2_CountBound == (Collected /\ limit > 0) => Len(raw.rows) <= limit

\* appending stopped in the middle of a page
C2_Witness ==
    /\ Collected /\ limit > 0 /\ ~callFailed
    /\ Len(pages[1]) > limit
    /\ Len(raw.rows) = limit

\* C3 as stated: a failing remote call yields no partial result AND an error
\* outcome reported upward to the caller.
C3_ErrorReported ==
    (Collected /\ callFailed) => (CommentsEmpty(raw) /\ collectRaised)

\* C3 amended: a failing remote call (or an item that raises in the loop)
\* yields the empty table, with nothing gathered before the error, and NO error
\* reported upward.
C3_ErrorSwallowed ==
    (Collected /\ (callFailed \/ LoopRaises(pages[1], limit)))
        => (raw = EmptyComments /\ ~collectRaised)

\* an error struck after a comment had been gathered
C3_Witness ==
    /\ Collected /\ ~callFailed /\ limit >= 2
    /\ Len(pages[1]) >= 2 /\ pages[1][1].ok /\ ~pages[1][2].ok
    /\ raw = EmptyComments

\* ------------------------------------------------------------------ claims: response table

\* the header marker the claims name
HeaderMarker == <<"G", "S", "|", "B", "R">>

Occurs(p, s) == \E i \in 0..(Len(s) - Len(p)) : SubSeq(s, i + 1, i + Len(p)) = p

\* offset of the first occurrence of the marker
MarkerAt(s) == Min({i \in 0..(Len(s) - Len(HeaderMarker)) :
                      SubSeq(s, i + 1, i + Len(HeaderMarker)) = HeaderMarker})

Answered == pc = "analyzed"

\* the parser ran on the response text
Parsed == Answered /\ fault = "none" /\ ~CommentsEmpty(df) /\ "text" \in df.cols

\* the table that follows the marker: its header and its data lines
TableRecords == Records(CleanCsv(SubSeq(response, MarkerAt(response) + 1, Len(response))))

WellFormedRows ==
    SelectSeq(Tail(TableRecords), LAMBDA r : Len(r) = Len(Head(TableRecords)))

RECURSIVE IsSubsequence(_, _)
IsSubsequence(a, b) ==
    IF a = <<>> THEN TRUE
    ELSE IF b = <<>> THEN FALSE
    ELSE IF Head(a) = Head(b) THEN IsSubsequence(Tail(a), Tail(b))
    ELSE IsSubsequence(a, Tail(b))

\* C4 as stated: analyze_with_gemini never raises, whichever step fails, and
\* returns the empty table whenever no table was found or a step failed.
C4_NeverRaises ==
    Answered => /\ ~analyzeRaised
                /\ (fault # "none" \/ ~Occurs(HeaderMarker, response))
                       => final = EmptyTable

\* C5: when the header marker does not occur in the response text, the parser
\* returns no row, whatever else the text contains.
C5_MarkerMiss ==
    (Answered /\ ~analyzeRaised /\ ~Occurs(HeaderMarker, response))
        => (final.rows = <<>> /\ final.cols = <<>>)

\* the parser ran on a text of delimited lines without the marker
C5_Witness ==
    /\ Parsed /\ ~Occurs(HeaderMarker, response)
    /\ LineCount(response) >= 2 /\ Occurs(<<Delim>>, response)
    /\ final.rows = <<>>

\* C6 as stated: every data row whose field count differs from the header's
\* is skipped, every well-formed row is kept in order, wherever the malformed
\* row stands: the result is exactly the well-formed rows.
C6_SkipMalformed ==
    (Parsed /\ Occurs(HeaderMarker, response))
        => /\ final.rows = WellFormedRows
           /\ \A i \in 1..Len(final.index) : final.index[i] = <<>>

\* C7 as stated: the marker's line is the header (names trimmed) and every
\* following well-formed data line yields a row of its own fields, in order.
C7_RowsInOrder ==
    (Parsed /\ Occurs(HeaderMarker, response))
        => /\ final.cols = [i \in 1..Len(Head(TableRecords)) |->
                               Strip(Head(TableRecords)[i])]
           /\ IsSubsequence(WellFormedRows, final.rows)

\* the text between a leading fence (with its language tag) and a trailing fence
Wrap(t, tag) == Fence \o tag \o <<NL>> \o t \o <<NL>> \o Fence

FenceTags == {<<>>, <<"c", "s", "v">>, <<"p", "y">>}

\* what the stage returns for text t on the same comment table
ParseOf(t) == analyze_with_gemini(df, "none", t).value

\* the ends of the lines at or after the marker
LineEnds(t) ==
    {p \in (MarkerAt(t) + Len(HeaderMarker))..Len(t) : p = Len(t) \/ t[p + 1] = NL}

\* t with a further line after offset p
InsertLine(t, p, line) == SubSeq(t, 1, p) \o <<NL>> \o line \o SubSeq(t, p + 1, Len(t))

WrappedSame == \A tag \in FenceTags : ParseOf(Wrap(response, tag)) = final

FenceLinesVanish(fences) ==
    \A f \in fences : \A p \in LineEnds(response) :
        ParseOf(InsertLine(response, p, f)) = final

\* C8 as stated: wrapping the text in fences changes nothing, and a fence
\* delimiter, with or without a language tag, at or after the marker
\* contributes nothing.
C8_AnyFence ==
    (Parsed /\ Occurs(HeaderMarker, response))
        => (WrappedSame /\ FenceLinesVanish({Fence, FenceCsv, FencePy}))

\* C8 amended: wrapping the text in a leading fence (any tag) and a trailing
\* fence changes nothing, and a fence line after the marker contributes
\* nothing when it is bare or tagged csv.
C8_FencesHandled ==
    (Parsed /\ Occurs(HeaderMarker, response))
        => (WrappedSame /\ FenceLinesVanish({Fence, FenceCsv}))

\* a table with rows was parsed from a text holding a fence after the marker
C8_Witness ==
    /\ Parsed /\ Occurs(HeaderMarker, response)
    /\ Occurs(Fence, SubSeq(response, MarkerAt(response) + 1, Len(response)))
    /\ Len(final.rows) >= 1
    /\ LineEnds(response) # {}

\* ------------------------------------------------------------------ claims: dashboard flow

FlowEnded == pc = "done" /\ "error_url" \notin ui

TableShown == "table" \in ui

FailureShown ==
    status = "error" \/ ui \cap {"warning", "error_ai", "exception"} # {}

\* C9 as stated: a run on a url with a video id ends either with the table
\* rendered or with an explicit failed state, never both and never neither;
\* success is never signalled without the table.
C9_TableOrFailure ==
    FlowEnded => /\ TableShown # FailureShown
                 /\ status = "complete" => TableShown
                 /\ TableShown => (info # None /\ ~callFailed /\ ~TableEmpty(final))

AnalysisReturned == pc \in {"status", "render"} \/ FlowEnded

\* C10: generate_content is invoked only after a collection that returned at
\* least one comment; on an empty collection the stage returns the empty
\* table without invoking it.
C10_NoGenerateWithoutComments ==
    /\ generateCalled => (pc \in {"status", "render", "done"} /\ ~CommentsEmpty(raw))
    /\ (AnalysisReturned /\ CommentsEmpty(raw))
           => (final = EmptyTable /\ ~generateCalled /\ ~analyzeRaised)

\* the stage returned on the empty table of a failed collection
C10_Witness ==
    /\ pc = "status" /\ callFailed /\ pages[1] # <<>>
    /\ CommentsEmpty(raw) /\ final = EmptyTable /\ ~generateCalled

====
